---- MODULE Spec2Model ----
(***************************************************************************)
(* Model of evo-tools/js-logger: the call-site resolver (Caller), the      *)
(* record (Log) with its format renderer, and the Logger facade.            *)
(***************************************************************************)
EXTENDS Integers, Sequences, FiniteSets, TLC

VARIABLES
  stack,            \* user call stack, innermost frame first
  maxCallers,       \* Caller.MAX_CALLERS_COUNT (public mutable static)
  hook,             \* Error.prepareStackTrace
  call,             \* the latest resolver call: what was called, on which frames
  caller,           \* the outcome of the latest resolver call
  heap,             \* user objects: object -> field -> value
  rendered,         \* the latest record user code built and rendered, with its outputs
  loggers,          \* 0: the static Logger; 1..MaxInstances: Logger instances
  records,          \* the records handed to handlers, oldest first
  last              \* the latest debug() call and what it did

callerVars == <<stack, maxCallers, hook, call, caller>>

renderVars == <<heap, rendered>>

facadeVars == <<loggers, records, last>>

vars == <<stack, maxCallers, hook, call, caller, heap, rendered, loggers, records, last>>

----------------------------------------------------------------------------
(* Bounds *)

MaxDepth == 3       \* user frames on the stack
MaxSkip == 2        \* skip levels passed to Caller.create
MaxAncestors == 2   \* maxCallersCount passed to Caller.create
NObj == 2           \* user objects on the heap
MaxInstances == 1   \* Logger instances alive at once
MaxRecords == 1     \* records kept by handlers

----------------------------------------------------------------------------
(* Values *)

\* undefined / null of a string-valued field
Absent == "<absent>"

\* undefined of a numeric field (x || undefined maps 0 to undefined)
NoNumber == 0

Min(a, b) == IF a <= b THEN a ELSE b

Max(a, b) == IF a >= b THEN a ELSE b

----------------------------------------------------------------------------
(* Caller *)

HANDLE_METHOD_NAME == "_handle"

\* the level vocabulary
LOG_LEVELS == {"debug", "info", "warn", "error", "critical", "verbose", "trace"}

MAX_CALLERS_COUNT == 1

Frame(fn, mn, ln) == [functionName |-> fn, methodName |-> mn, line |-> ln]

\* callSites[i] of the source (0-based); "undefined" past the end
Undefined == [functionName |-> "<undefined>", methodName |-> "<undefined>", line |-> -1]

At(callSites, i) ==
  IF i >= 0 /\ i < Len(callSites) THEN callSites[i + 1] ELSE Undefined

\* Array.prototype.slice(start, end) for 0 <= start
Slice(s, start, end) ==
  LET lo == Min(start, Len(s))
      hi == Min(Max(end, lo), Len(s))
  IN  [k \in 1..(hi - lo) |-> s[lo + k]]

\* the fields of a Caller built without parentCallSites (trace undefined)
CallerFields(callSite) ==
  [functionName |-> IF callSite.functionName = "" THEN Absent ELSE callSite.functionName,
   methodName |-> IF callSite.methodName = "" THEN Absent ELSE callSite.methodName,
   line |-> callSite.line,
   hasTrace |-> FALSE,
   trace |-> <<>>]

NoCaller ==
  [functionName |-> Absent, methodName |-> Absent, line |-> NoNumber,
   hasTrace |-> FALSE, trace |-> <<>>]

\* new Caller(callSite, parentCallSites); a read of callSite.getFileName() on
\* undefined raises a TypeError
NewCaller(callSite, hasParents, parentCallSites) ==
  IF callSite = Undefined
    THEN [status |-> "TypeError", value |-> NoCaller]
    ELSE [status |-> "returned",
          value |-> [CallerFields(callSite) EXCEPT
                       !.hasTrace = hasParents,
                       !.trace = [k \in 1..Len(parentCallSites) |->
                                    CallerFields(parentCallSites[k])]]]

\* the slice starting one frame early, at the resolved frame itself
StartIndexAtResolved(j) == j + 1

\* first index of the slice of ancestors, from the index j of the skipped frame
StartIndex(j) == j + 2

\* the resolved frame and its ancestors once the boundary is found at index i
Resolve(callSites, i, level, maxCallersCount) ==
  LET j == i + level
      startIndex == StartIndex(j)
      endIndex == startIndex + maxCallersCount
  IN  NewCaller(At(callSites, j + 1), TRUE, Slice(callSites, startIndex, endIndex))

\* the frame the scan is left holding when the loop ends without a boundary
Fallback(callSites, callSite) == NewCaller(callSite, FALSE, <<>>)

RECURSIVE Scan(_, _, _, _, _, _)
\* the for loop of Caller.create, from index i on
Scan(callSites, i, foundHandle, callSite, level, maxCallersCount) ==
  IF i >= Len(callSites)
    THEN Fallback(callSites, callSite)
    ELSE LET cs == At(callSites, i)
             methodName == cs.methodName
         IN  IF ~foundHandle /\ methodName = HANDLE_METHOD_NAME
               THEN Scan(callSites, i + 1, TRUE, cs, level, maxCallersCount)
               ELSE IF foundHandle /\ methodName \in LOG_LEVELS
                 THEN Resolve(callSites, i, level, maxCallersCount)
                 ELSE Scan(callSites, i + 1, foundHandle, cs, level, maxCallersCount)

\* Caller.create(level, maxCallersCount) on the captured frames
Create(callSites, level, maxCallersCount) ==
  Scan(callSites, 1, FALSE, At(callSites, 0), level, maxCallersCount)

----------------------------------------------------------------------------
(* Frames of the library itself *)

F_getCallSites == Frame("_getCallSites", "_getCallSites", 71)

F_create == Frame("create", "create", 39)

\* the constructor frame of the record: a constructor call has no method name
F_Log == Frame("Log", "", 41)

F_handle == Frame("_handle", "_handle", 24)

\* the public logging methods and the level each hands to _handle
Methods == {"log", "debug", "info", "warn", "trace", "error", "critical", "dir"}

LevelOf(m) ==
  CASE m = "log" -> "debug"
    [] m = "dir" -> "verbose"
    [] OTHER -> m

F_method(m) == Frame(m, m, 105)

\* the value of Error.prepareStackTrace when the module was loaded (what
\* source-map-support's install() left there)
NATIVE_PREPARE_STACK_TRACE == "installed at load"

OVERRIDED_PREPARE_STACK_TRACE == "return the raw frames"

\* Error.prepareStackTrace once Caller._getCallSites has run, entered with before
GetCallSitesHook(before) == NATIVE_PREPARE_STACK_TRACE

\* frames captured when Caller.create is called from the frames below
CaptureFrom(below) == <<F_getCallSites, F_create>> \o below

\* frames captured inside new Log(...) constructed from the frames below
RecordFrames(below) == CaptureFrom(<<F_Log>> \o below)

\* frames captured when a logging method m runs Logger._handle
HandleFrames(m, userStack) == RecordFrames(<<F_handle, F_method(m)>> \o userStack)

----------------------------------------------------------------------------
(* Values of user data: a heap of objects holding strings and references *)

Objs == 1..NObj

\* own enumerable keys of a user object, in insertion order
Keys == <<"a", "b">>

V_undefined == [t |-> "undefined"]

V_string(s) == [t |-> "string", s |-> s]

V_object(o) == [t |-> "object", ref |-> o]

\* what user code stores in field a, and in field b
ValuesA == {V_undefined, V_string("x")} \cup {V_object(o) : o \in Objs}

ValuesB == {V_undefined} \cup {V_object(o) : o \in Objs}

\* objects referenced directly by object o
Children(h, o) == {h[o][k].ref : k \in {k \in DOMAIN h[o] : h[o][k].t = "object"}}

RECURSIVE ReachIn(_, _, _)
\* objects reachable from the set S in at most n further steps
ReachIn(h, S, n) ==
  IF n = 0 THEN S
  ELSE ReachIn(h, S \cup UNION {Children(h, o) : o \in S}, n - 1)

\* objects reachable from value v
Reach(h, v) == IF v.t = "object" THEN ReachIn(h, {v.ref}, NObj) ELSE {}

\* o lies on a reference cycle
OnCycle(h, o) == o \in ReachIn(h, Children(h, o), NObj)

\* a reference cycle is reachable from one of the values vs
Cyclic(h, vs) == \E v \in vs : \E o \in Reach(h, v) : OnCycle(h, o)

----------------------------------------------------------------------------
(* JSON text, as its syntax tree *)

J_string(s) == [t |-> "string", s |-> s]

J_number(n) == [t |-> "number", n |-> n]

J_null == [t |-> "null"]

J_object(members) == [t |-> "object", members |-> members]

J_array(items) == [t |-> "array", items |-> items]

\* a property whose value is undefined, which an object omits
J_omitted == [t |-> "omitted"]

Member(k, v) == [key |-> k, value |-> v]

\* the members of an object, without the omitted ones
RECURSIVE Present(_)
Present(members) ==
  IF members = <<>> THEN <<>>
  ELSE IF Head(members).value = J_omitted THEN Present(Tail(members))
  ELSE <<Head(members)>> \o Present(Tail(members))

\* the value of member k of a JSON object (J_omitted when it has none)
Get(obj, k) ==
  IF \E i \in DOMAIN obj.members : obj.members[i].key = k
    THEN obj.members[CHOOSE i \in DOMAIN obj.members : obj.members[i].key = k].value
    ELSE J_omitted

----------------------------------------------------------------------------
(* Log.messages, the json branch *)

CIRCULAR == "[circular]"

Includes(cache, o) == \E i \in DOMAIN cache : cache[i] = o

\* the replacer without its cache.push(value)
ReplacerNoPush(value, cache) ==
  IF value.t = "object" /\ Includes(cache, value.ref)
    THEN [value |-> V_string(CIRCULAR), cache |-> cache]
    ELSE [value |-> value, cache |-> cache]

\* the replacer given to JSON.stringify: the value it returns and the cache
Replacer(value, cache) ==
  IF value.t = "object"
    THEN IF Includes(cache, value.ref)
           THEN [value |-> V_string(CIRCULAR), cache |-> cache]
           ELSE [value |-> value, cache |-> Append(cache, value.ref)]
    ELSE [value |-> value, cache |-> cache]

\* identities of the objects a message is made of, distinct from user objects
MessageId == 0

ArgsId == -1

CallerId == -2

TraceId == -3

RECURSIVE SerializeProperty(_, _, _, _)
RECURSIVE SerializeMembers(_, _, _, _, _)
\* JSON.stringify's SerializeJSONProperty: the replacer first, then the value it
\* returned; an object already being serialized (on the ancestor stack) raises
\* JSON.stringify's own TypeError
SerializeProperty(h, value, cache, ancestors) ==
  LET r == Replacer(value, cache)
  IN  CASE r.value.t = "undefined" ->
             [threw |-> FALSE, json |-> J_omitted, cache |-> r.cache]
        [] r.value.t = "string" ->
             [threw |-> FALSE, json |-> J_string(r.value.s), cache |-> r.cache]
        [] r.value.t = "object" ->
             IF r.value.ref \in ancestors
               THEN [threw |-> TRUE, json |-> J_omitted, cache |-> r.cache]
               ELSE LET m == SerializeMembers(h, r.value.ref, 1, r.cache,
                                              ancestors \cup {r.value.ref})
                    IN  [threw |-> m.threw,
                         json |-> J_object(Present(m.members)),
                         cache |-> m.cache]

\* the members of object o from key number i on, depth first in key order
SerializeMembers(h, o, i, cache, ancestors) ==
  IF i > Len(Keys)
    THEN [threw |-> FALSE, members |-> <<>>, cache |-> cache]
    ELSE LET p == SerializeProperty(h, h[o][Keys[i]], cache, ancestors)
         IN  IF p.threw
               THEN [threw |-> TRUE, members |-> <<>>, cache |-> p.cache]
               ELSE LET rest == SerializeMembers(h, o, i + 1, p.cache, ancestors)
                    IN  [threw |-> rest.threw,
                         members |-> <<Member(Keys[i], p.json)>> \o rest.members,
                         cache |-> rest.cache]

RECURSIVE SerializeItems(_, _, _, _)
\* the elements of an array from element i on; undefined is written as null
SerializeItems(h, items, i, cache) ==
  IF i > Len(items)
    THEN [threw |-> FALSE, items |-> <<>>, cache |-> cache]
    ELSE LET p == SerializeProperty(h, items[i], cache, {})
         IN  IF p.threw
               THEN [threw |-> TRUE, items |-> <<>>, cache |-> p.cache]
               ELSE LET rest == SerializeItems(h, items, i + 1, p.cache)
                    IN  [threw |-> rest.threw,
                         items |-> <<IF p.json = J_omitted THEN J_null ELSE p.json>>
                                     \o rest.items,
                         cache |-> rest.cache]

\* a string-valued field that may be undefined
J_optional(s) == IF s = Absent THEN J_omitted ELSE J_string(s)

\* the fields of one Caller; its trace is written when it has one
CallerMembers(c) ==
  <<Member("methodName", J_optional(c.methodName)),
    Member("functionName", J_optional(c.functionName)),
    Member("line", IF c.line = NoNumber THEN J_omitted ELSE J_number(c.line))>>

CallerJSON(c) ==
  J_object(Present(
    CallerMembers(c) \o
    <<Member("trace",
             IF c.hasTrace
               THEN J_array([k \in 1..Len(c.trace) |->
                               J_object(Present(CallerMembers(c.trace[k])))])
               ELSE J_omitted)>>))

\* Log.toMessage
ToMessage(rec) ==
  [args |-> rec.args, caller |-> rec.caller, date |-> rec.date,
   level |-> rec.level, meta |-> rec.meta, name |-> rec.name]

\* JSON.stringify(this.toMessage(), replacer) with a fresh cache
Stringify(h, message) ==
  LET cache0 == <<MessageId, ArgsId>>
      args == SerializeItems(h, message.args, 1, cache0)
      cache1 == args.cache \o <<CallerId>>
                  \o (IF message.caller.hasTrace THEN <<TraceId>> ELSE <<>>)
      meta == SerializeProperty(h, message.meta, cache1, {})
  IN  IF args.threw \/ meta.threw
        THEN [threw |-> TRUE, json |-> J_omitted]
        ELSE [threw |-> FALSE,
              json |-> J_object(Present(
                <<Member("args", J_array(args.items)),
                  Member("caller", CallerJSON(message.caller)),
                  Member("date", J_number(message.date)),
                  Member("level", J_string(message.level)),
                  Member("meta", meta.json),
                  Member("name", J_optional(message.name))>>))]

----------------------------------------------------------------------------
(* Log.messages, the template and function branches *)

\* a template string, as what FORMAT_REPLACE_MASK splits it into: literal
\* text and {{ prop }} or {{ prop | pipe }} matches
Text(t) == [kind |-> "text", text |-> t, prop |-> Absent, pipe |-> Absent]

Mask(prop, pipe) == [kind |-> "mask", text |-> Absent, prop |-> prop, pipe |-> pipe]

Template(parts) == [kind |-> "template", parts |-> parts, fn |-> Absent]

Json == [kind |-> "json", parts |-> <<>>, fn |-> Absent]

FormatFn(fn) == [kind |-> "function", parts |-> <<>>, fn |-> fn]

\* String(value), as String.prototype.replace coerces what the callback returns
ToText(value) ==
  CASE value.t = "string" -> value.s
    [] value.t = "undefined" -> "undefined"
    [] value.t = "object" -> "[object Object]"

\* this[propName] on a Log
Prop(rec, propName) ==
  CASE propName = "level" -> V_string(rec.level)
    [] propName = "name" -> IF rec.name = Absent THEN V_undefined ELSE V_string(rec.name)
    [] propName = "meta" -> rec.meta
    [] OTHER -> V_undefined

\* s.toUpperCase() on the strings of the model
Upper(s) ==
  CASE s = "debug" -> "DEBUG"
    [] s = "info" -> "INFO"
    [] s = "warn" -> "WARN"
    [] s = "error" -> "ERROR"
    [] s = "critical" -> "CRITICAL"
    [] s = "verbose" -> "VERBOSE"
    [] s = "trace" -> "TRACE"
    [] s = "app" -> "APP"
    [] OTHER -> s

\* the pipe functions user code registers; any other value is not a function
PipeFns == {"upper", "brackets"}

ApplyPipe(fn, value) ==
  CASE fn = "upper" -> Upper(ToText(value))
    [] fn = "brackets" -> "[" \o ToText(value) \o "]"

\* typeof this.pipes[pipeName] === 'function'
IsFunction(pipes, pipeName) == pipeName \in DOMAIN pipes /\ pipes[pipeName] \in PipeFns

\* the replace callback on one match: the text put in its place, or the throw
ReplaceMatch(rec, pipes, part) ==
  LET prop == Prop(rec, part.prop)
  IN  IF part.pipe # Absent
        THEN IF ~IsFunction(pipes, part.pipe)
               THEN [threw |-> TRUE, pipe |-> part.pipe, text |-> ""]
               ELSE [threw |-> FALSE, pipe |-> Absent,
                     text |-> ApplyPipe(pipes[part.pipe], prop)]
        ELSE [threw |-> FALSE, pipe |-> Absent, text |-> ToText(prop)]

RECURSIVE ReplaceAll(_, _, _, _)
\* f.replace(FORMAT_REPLACE_MASK, callback) from part i on; a throw of the
\* callback ends the replace
ReplaceAll(rec, pipes, parts, i) ==
  IF i > Len(parts)
    THEN [threw |-> FALSE, pipe |-> Absent, text |-> ""]
    ELSE LET one == IF parts[i].kind = "text"
                      THEN [threw |-> FALSE, pipe |-> Absent, text |-> parts[i].text]
                      ELSE ReplaceMatch(rec, pipes, parts[i])
         IN  IF one.threw
               THEN one
               ELSE LET rest == ReplaceAll(rec, pipes, parts, i + 1)
                    IN  IF rest.threw
                          THEN rest
                          ELSE [threw |-> FALSE, pipe |-> Absent,
                                text |-> one.text \o rest.text]

\* the format functions user code passes; each is called with this = pipes
ApplyFormatFn(fn, pipes, message) ==
  CASE fn = "levelOnly" -> message.level
    [] fn = "pipeCount" -> IF DOMAIN pipes = {} THEN "no pipes" ELSE "pipes"

\* one rendered output
Output(kind, json, text) == [kind |-> kind, json |-> json, text |-> text]

\* the callback of formats.map on one format
RenderFormat(h, rec, pipes, f) ==
  CASE f.kind = "json" ->
         LET r == Stringify(h, ToMessage(rec))
         IN  IF r.threw
               THEN [threw |-> "TypeError: circular", pipe |-> Absent,
                     out |-> Output("none", J_omitted, "")]
               ELSE [threw |-> "no", pipe |-> Absent, out |-> Output("json", r.json, "")]
    [] f.kind = "function" ->
         [threw |-> "no", pipe |-> Absent,
          out |-> Output("value", J_omitted, ApplyFormatFn(f.fn, pipes, ToMessage(rec)))]
    [] f.kind = "template" ->
         LET r == ReplaceAll(rec, pipes, f.parts, 1)
         IN  IF r.threw
               THEN [threw |-> "TypeError: pipe", pipe |-> r.pipe,
                     out |-> Output("none", J_omitted, "")]
               ELSE [threw |-> "no", pipe |-> Absent, out |-> Output("text", J_omitted, r.text)]

RECURSIVE MapFormats(_, _, _, _, _, _)
\* this.formats.map(callback) from format i on, done holding the earlier outputs
MapFormats(h, rec, formats, pipes, i, done) ==
  IF i > Len(formats)
    THEN [status |-> "returned", pipe |-> Absent, out |-> done]
    ELSE LET r == RenderFormat(h, rec, pipes, formats[i])
         IN  IF r.threw # "no"
               THEN [status |-> r.threw, pipe |-> r.pipe, out |-> <<>>]
               ELSE MapFormats(h, rec, formats, pipes, i + 1, Append(done, r.out))

\* Log.messages() of a record whose formats and pipes hold these values
Messages(h, rec, formats, pipes) == MapFormats(h, rec, formats, pipes, 1, <<>>)

----------------------------------------------------------------------------
(* Logger: options and loggers *)

\* a meta object: fields a and b, V_undefined standing for a key it lacks
EmptyMeta == [a |-> V_undefined, b |-> V_undefined]

\* a pipes object without keys
EmptyPipes == [n \in {} |-> "none"]

\* Object.assign(target, source) on objects of a fixed key set
AssignMeta(target, source) ==
  [k \in DOMAIN target |-> IF source[k] # V_undefined THEN source[k] ELSE target[k]]

\* Object.assign(target, source) on pipes objects
AssignPipes(target, source) ==
  [k \in DOMAIN target \cup DOMAIN source |->
     IF k \in DOMAIN source THEN source[k] ELSE target[k]]

\* a LoggerOptions object; Absent, "unset" and present = FALSE mark a missing key
Options(name, debug, hasFormats, formats, pipes, meta, handler) ==
  [name |-> name, debug |-> debug, hasFormats |-> hasFormats, formats |-> formats,
   pipes |-> pipes, meta |-> meta, handler |-> handler]

NoOptions == Options(Absent, "unset", FALSE, <<>>, EmptyPipes, EmptyMeta, Absent)

\* the handler a logger starts with, and one that user code registers
DefaultHandler == "noop"

\* the static Logger after module load
StaticLogger ==
  [alive |-> TRUE, logname |-> Absent, meta |-> EmptyMeta, pipes |-> EmptyPipes,
   formats |-> <<>>, debugMode |-> FALSE, handler |-> DefaultHandler]

\* a slot holding no instance
NoLogger == [StaticLogger EXCEPT !.alive = FALSE]

\* Logger.configure(options) on the static Logger L
Configure(L, options) ==
  [L EXCEPT
     !.logname = IF options.name # Absent THEN options.name ELSE @,
     !.debugMode = IF options.debug = "true" THEN TRUE ELSE @,
     !.formats = IF options.hasFormats THEN options.formats ELSE @,
     !.pipes = AssignPipes(@, options.pipes),
     !.meta = AssignMeta(@, options.meta),
     !.handler = IF options.handler # Absent THEN options.handler ELSE @]

\* new Logger(options) while the static Logger is L
Construct(L, options) ==
  [alive |-> TRUE,
   logname |-> IF options.name # Absent THEN options.name ELSE L.logname,
   meta |-> AssignMeta(AssignMeta(EmptyMeta, L.meta), options.meta),
   pipes |-> AssignPipes(AssignPipes(EmptyPipes, L.pipes), options.pipes),
   formats |-> IF options.hasFormats THEN options.formats ELSE L.formats,
   debugMode |-> IF options.debug = "unset" THEN L.debugMode ELSE options.debug = "true",
   handler |-> IF options.handler # Absent THEN options.handler ELSE L.handler]

\* the options clone() passes to the constructor
CloneOptions(inst) ==
  Options(inst.logname, "unset", TRUE, inst.formats, inst.pipes, inst.meta, inst.handler)

\* the _logname that name(name) defines on the clone
JoinName(logname, name) ==
  IF logname # Absent /\ name # "" THEN logname \o "." \o name
  ELSE IF name # "" THEN name ELSE logname

\* Logger._getMeta(instance): a fresh object
GetMeta(L, instance, isStatic) ==
  IF isStatic THEN AssignMeta(EmptyMeta, L.meta)
  ELSE AssignMeta(AssignMeta(EmptyMeta, L.meta), instance.meta)

----------------------------------------------------------------------------
(* Records *)

\* new Log(name, formats, pipes, meta, level, args, callerLevel): formats and
\* pipes are kept by reference, here the logger (owner) whose array and object
\* they are; the constructor throws when Caller.create does
NewRecord(owner, name, meta, level, args, callSites, callerLevel, maxCallersCount, date) ==
  LET c == Create(callSites, callerLevel, maxCallersCount)
  IN  [threw |-> c.status # "returned",
       rec |-> [owner |-> owner, name |-> name, level |-> level, args |-> args,
                meta |-> meta, caller |-> c.value, date |-> date]]

\* Logger._handle(instance, level, args) reached through logging method m:
\* the record handed to the handler of the instance
Handle(L, instance, owner, m, args, userStack, maxCallersCount, date) ==
  NewRecord(owner, instance.logname, GetMeta(L, instance, owner = 0), LevelOf(m),
            args, HandleFrames(m, userStack), 0, maxCallersCount, date)

\* messages() of a record of the facade, its formats and pipes read through
\* the references it holds, its meta a fresh object of its own
RecordMessages(ls, rec) ==
  Messages([o \in {1} |-> rec.meta], [rec EXCEPT !.meta = V_object(1)],
           ls[rec.owner].formats, ls[rec.owner].pipes)

----------------------------------------------------------------------------
(* Initial state *)

NoCall ==
  [op |-> "none", method |-> Absent, level |-> 0, max |-> 0, callSites |-> <<>>,
   hookBefore |-> NATIVE_PREPARE_STACK_TRACE]

NoResult == [status |-> "none", value |-> NoCaller]

NoRendered == [status |-> "none"]

NoLast == [op |-> "none"]

Init ==
  /\ stack = <<>>
  /\ maxCallers = MAX_CALLERS_COUNT
  /\ hook = NATIVE_PREPARE_STACK_TRACE
  /\ call = NoCall
  /\ caller = NoResult
  /\ heap = [o \in Objs |-> [a |-> V_undefined, b |-> V_undefined]]
  /\ rendered = NoRendered
  /\ loggers = [i \in 0..MaxInstances |-> IF i = 0 THEN StaticLogger ELSE NoLogger]
  /\ records = <<>>
  /\ last = NoLast

----------------------------------------------------------------------------
(* The resolver driven by user code *)

\* user functions: a plain function, and methods that happen to carry a
\* level name or the name of the dispatch method
UserFrames ==
  {[functionName |-> "main", methodName |-> ""],
   [functionName |-> "warn", methodName |-> "warn"],
   [functionName |-> "_handle", methodName |-> "_handle"]}

\* other code's values of Error.prepareStackTrace
UserHooks == {"user hook"}

\* the clock reading given to records
Clock == 1

Forget == call' = NoCall /\ caller' = NoResult

\* the record of a resolver call and its outcome; user code reads the outcome
\* before its next call
Resolved(op, m, level, max, callSites) ==
  /\ call' = [op |-> op, method |-> m, level |-> level, max |-> max,
              callSites |-> callSites, hookBefore |-> hook]
  /\ caller' = Create(callSites, level, max)
  /\ hook' = GetCallSitesHook(hook)

\* user code calls a user function
UserCall ==
  /\ Len(stack) < MaxDepth
  /\ \E f \in UserFrames :
       stack' = <<Frame(f.functionName, f.methodName, 200 + Len(stack))>> \o stack
  /\ Forget
  /\ UNCHANGED <<maxCallers, hook, loggers>>
  /\ UNCHANGED <<heap, rendered, records, last>>

\* the innermost user function returns
UserReturn ==
  /\ Len(stack) > 0
  /\ stack' = Tail(stack)
  /\ Forget
  /\ UNCHANGED <<maxCallers, hook, loggers>>
  /\ UNCHANGED <<heap, rendered, records, last>>

\* Caller.MAX_CALLERS_COUNT = n
SetMaxCallers ==
  /\ \E n \in 0..MaxAncestors : maxCallers' = n
  /\ Forget
  /\ UNCHANGED <<stack, hook, loggers>>
  /\ UNCHANGED <<heap, rendered, records, last>>

\* other code assigns Error.prepareStackTrace, or puts back the value of load time
SetHook ==
  /\ \E v \in UserHooks \cup {NATIVE_PREPARE_STACK_TRACE} : hook' = v
  /\ Forget
  /\ UNCHANGED <<stack, maxCallers, loggers>>
  /\ UNCHANGED <<heap, rendered, records, last>>

\* Logger.configure({debug: true})
EnableDebug ==
  /\ loggers' = [loggers EXCEPT
                   ![0] = Configure(@, [NoOptions EXCEPT !.debug = "true"])]
  /\ Forget
  /\ UNCHANGED <<stack, maxCallers, hook>>
  /\ UNCHANGED <<heap, rendered, records, last>>

\* a logging method of Logger other than debug, static or on an instance,
\* called from the innermost user frame (as a bare callback when there is none)
LogMethod ==
  /\ call = NoCall
  /\ \E m \in Methods \ {"debug"}, kind \in {"static", "instance"} :
       Resolved(kind, m, 0, maxCallers, HandleFrames(m, stack))
  /\ UNCHANGED <<stack, maxCallers, loggers>>
  /\ UNCHANGED <<heap, rendered, records, last>>

\* Logger.debug(...) and instance.debug(...): both read Logger._debugMode
LogDebug ==
  /\ call = NoCall
  /\ loggers[0].debugMode
  /\ \E kind \in {"static", "instance"} :
       Resolved(kind, "debug", 0, maxCallers, HandleFrames("debug", stack))
  /\ UNCHANGED <<stack, maxCallers, loggers>>
  /\ UNCHANGED <<heap, rendered, records, last>>

\* new Log(..., callerLevel) constructed by user code
NewLog ==
  /\ call = NoCall
  /\ \E level \in 0..MaxSkip :
       Resolved("new", Absent, level, maxCallers, RecordFrames(stack))
  /\ UNCHANGED <<stack, maxCallers, loggers>>
  /\ UNCHANGED <<heap, rendered, records, last>>

\* Caller.create(level, maxCallersCount) called by user code
CreateDirect ==
  /\ call = NoCall
  /\ \E level \in 0..MaxSkip, max \in 0..MaxAncestors :
       Resolved("create", Absent, level, max, CaptureFrom(stack))
  /\ UNCHANGED <<stack, maxCallers, loggers>>
  /\ UNCHANGED <<heap, rendered, records, last>>

CallerNext ==
  \/ UserCall
  \/ UserReturn
  \/ SetMaxCallers
  \/ SetHook
  \/ EnableDebug
  \/ LogMethod
  \/ LogDebug
  \/ NewLog
  \/ CreateDirect

SpecCaller == Init /\ [][CallerNext]_vars

----------------------------------------------------------------------------
(* Records built and rendered by user code *)

\* name and level given to the constructor
Heads == {[name |-> Absent, level |-> "info"], [name |-> "app", level |-> "error"]}

\* args given to the constructor
ArgLists == {<<>>, <<V_string("x")>>} \cup {<<V_object(o)>> : o \in Objs}

T_level == Template(<<Mask("level", Absent)>>)

T_upper == Template(<<Text("["), Mask("level", "upper"), Text("] "), Mask("name", Absent)>>)

UpperPipes == [n \in {"upper"} |-> "upper"]

\* formats and pipes given to the constructor
FormatCases ==
  {[formats |-> <<Json>>, pipes |-> EmptyPipes],
   [formats |-> <<T_level, Json>>, pipes |-> EmptyPipes],
   [formats |-> <<T_upper>>, pipes |-> UpperPipes],
   [formats |-> <<Json, T_upper, T_level>>, pipes |-> EmptyPipes],
   [formats |-> <<T_upper, FormatFn("levelOnly")>>,
    pipes |-> [n \in {"upper"} |-> "not a function"]],
   [formats |-> <<FormatFn("pipeCount"), T_level>>, pipes |-> UpperPipes]}

\* the frames of the user code that builds records and calls the facade
MainStack == <<Frame("main", "", 200)>>

\* user code assigns a field of one of its objects
SetField ==
  /\ rendered = NoRendered
  /\ \E o \in Objs :
       \/ \E v \in ValuesA : heap' = [heap EXCEPT ![o].a = v]
       \/ \E v \in ValuesB : heap' = [heap EXCEPT ![o].b = v]
  /\ rendered' = NoRendered
  /\ UNCHANGED <<callerVars, facadeVars>>

\* user code builds a record with object 1 as its meta and calls messages()
RenderRecord ==
  /\ rendered = NoRendered
  /\ \E head \in Heads, args \in ArgLists, fc \in FormatCases :
       LET new == NewRecord(-1, head.name, V_object(1), head.level, args,
                            RecordFrames(MainStack), 0, maxCallers, Clock)
       IN  /\ ~new.threw
           /\ rendered' = [status |-> "done", rec |-> new.rec,
                           formats |-> fc.formats, pipes |-> fc.pipes,
                           result |-> Messages(heap, new.rec, fc.formats, fc.pipes)]
  /\ UNCHANGED <<heap, callerVars, facadeVars>>

\* user code drops the record it rendered
Discard ==
  /\ rendered # NoRendered
  /\ rendered' = NoRendered
  /\ UNCHANGED <<heap, callerVars, facadeVars>>

RenderNext ==
  \/ SetField
  \/ RenderRecord
  \/ Discard

SpecRender == Init /\ [][RenderNext]_vars

----------------------------------------------------------------------------
(* The facade driven by user code *)

\* the options objects user code passes to configure and to the constructor
OptionSet ==
  {[NoOptions EXCEPT !.name = "app"],
   [NoOptions EXCEPT !.debug = "true"],
   [NoOptions EXCEPT !.debug = "false"],
   [NoOptions EXCEPT !.hasFormats = TRUE, !.formats = <<T_upper>>],
   [NoOptions EXCEPT !.pipes = UpperPipes],
   [NoOptions EXCEPT !.meta = [a |-> V_string("x"), b |-> V_undefined]],
   [NoOptions EXCEPT !.handler = "collect"]}

\* meta objects user code passes to Logger.meta and to meta()
MetaSet == {[a |-> V_undefined, b |-> V_string("y")]}

\* names user code passes to useName and to name()
NameSet == {"db"}

\* the names name() is called on: those no name() call made (names grow
\* without bound otherwise)
NameRoots == {Absent, "app"}

\* the logging methods user code calls besides debug
FacadeMethods == {"info", "dir"}

FacadeArgs == <<V_string("x")>>

Instances == {i \in 1..MaxInstances : loggers[i].alive}

\* slots for a new instance: empty ones, and those of instances that user
\* code dropped and no record refers to
FreeSlots ==
  {i \in 1..MaxInstances :
     ~loggers[i].alive \/ \A k \in DOMAIN records : records[k].rec.owner # i}

\* Logger.configure(options)
StaticConfigure ==
  /\ \E options \in OptionSet :
       loggers' = [loggers EXCEPT ![0] = Configure(@, options)]
  /\ last' = NoLast
  /\ UNCHANGED <<records, callerVars, renderVars>>

\* new Logger(options), new Logger()
NewLogger ==
  /\ \E options \in OptionSet \cup {NoOptions}, i \in FreeSlots :
       loggers' = [loggers EXCEPT ![i] = Construct(loggers[0], options)]
  /\ last' = NoLast
  /\ UNCHANGED <<records, callerVars, renderVars>>

\* Logger.useName(name)
StaticUseName ==
  /\ \E name \in NameSet, i \in FreeSlots :
       loggers' = [loggers EXCEPT
                     ![i] = Construct(loggers[0], [NoOptions EXCEPT !.name = name])]
  /\ last' = NoLast
  /\ UNCHANGED <<records, callerVars, renderVars>>

\* Logger.meta(meta)
StaticMeta ==
  /\ \E meta \in MetaSet, i \in FreeSlots :
       LET logger == Construct(loggers[0], NoOptions)
       IN  loggers' = [loggers EXCEPT
                         ![i] = [logger EXCEPT
                                   !.meta = AssignMeta(AssignMeta(@, loggers[0].meta), meta)]]
  /\ last' = NoLast
  /\ UNCHANGED <<records, callerVars, renderVars>>

\* instance.clone(); the clone may take the place of a dropped instance
InstClone ==
  /\ \E i \in Instances, j \in FreeSlots :
       loggers' = [loggers EXCEPT ![j] = Construct(loggers[0], CloneOptions(loggers[i]))]
  /\ last' = NoLast
  /\ UNCHANGED <<records, callerVars, renderVars>>

\* instance.name(name)
InstName ==
  /\ \E i \in Instances, j \in FreeSlots, name \in NameSet :
       /\ loggers[i].logname \in NameRoots
       /\ LET logger == Construct(loggers[0], CloneOptions(loggers[i]))
          IN  loggers' = [loggers EXCEPT
                            ![j] = [logger EXCEPT !.logname = JoinName(@, name)]]
  /\ last' = NoLast
  /\ UNCHANGED <<records, callerVars, renderVars>>

\* instance.meta(meta)
InstMeta ==
  /\ \E i \in Instances, meta \in MetaSet :
       loggers' = [loggers EXCEPT ![i].meta = AssignMeta(@, meta)]
  /\ last' = NoLast
  /\ UNCHANGED <<records, callerVars, renderVars>>

\* _handle: the record is built and handed to the handler of the logger
Handled(i, m) ==
  LET new == Handle(loggers[0], loggers[i], i, m, FacadeArgs, MainStack, maxCallers, Clock)
  IN  /\ ~new.threw
      /\ records' = Append(records, [rec |-> new.rec, handler |-> loggers[i].handler])

\* Logger.info(...), Logger.dir(...)
StaticLog ==
  /\ Len(records) < MaxRecords
  /\ \E m \in FacadeMethods : Handled(0, m)
  /\ last' = NoLast
  /\ UNCHANGED <<loggers, callerVars, renderVars>>

\* instance.info(...), instance.dir(...)
InstLog ==
  /\ Len(records) < MaxRecords
  /\ \E i \in Instances, m \in FacadeMethods : Handled(i, m)
  /\ last' = NoLast
  /\ UNCHANGED <<loggers, callerVars, renderVars>>

\* what a debug() call on logger i did
DebugCall(i, created) ==
  last' = [op |-> "debug", logger |-> i, option |-> loggers[i].debugMode,
           handler |-> loggers[i].handler, created |-> created]

\* Logger.debug(...)
StaticDebug ==
  /\ Len(records) < MaxRecords
  /\ IF loggers[0].debugMode
       THEN Handled(0, "debug") /\ DebugCall(0, TRUE)
       ELSE UNCHANGED records /\ DebugCall(0, FALSE)
  /\ UNCHANGED <<loggers, callerVars, renderVars>>

\* instance.debug(...): the flag read is the static one
InstDebug ==
  /\ Len(records) < MaxRecords
  /\ \E i \in Instances :
       IF loggers[0].debugMode
         THEN Handled(i, "debug") /\ DebugCall(i, TRUE)
         ELSE UNCHANGED records /\ DebugCall(i, FALSE)
  /\ UNCHANGED <<loggers, callerVars, renderVars>>

FacadeNext ==
  \/ StaticConfigure
  \/ NewLogger
  \/ StaticUseName
  \/ StaticMeta
  \/ InstClone
  \/ InstName
  \/ InstMeta
  \/ StaticLog
  \/ InstLog
  \/ StaticDebug
  \/ InstDebug

SpecFacade == Init /\ [][FacadeNext]_vars

----------------------------------------------------------------------------
(* Claims about the resolver *)

\* 0-based index of the first frame after index 0 whose method name is the
\* sentinel, -1 when there is none
SentinelIndex(cs) ==
  LET S == {i \in 1..(Len(cs) - 1) : cs[i + 1].methodName = HANDLE_METHOD_NAME}
  IN  IF S = {} THEN -1 ELSE CHOOSE i \in S : \A k \in S : i <= k

\* 0-based index of the first frame after the sentinel whose method name is a
\* level name, -1 when the sentinel or that frame is missing
BoundaryIndex(cs) ==
  LET s == SentinelIndex(cs)
      B == {i \in (s + 1)..(Len(cs) - 1) : cs[i + 1].methodName \in LOG_LEVELS}
  IN  IF s = -1 \/ B = {} THEN -1 ELSE CHOOSE i \in B : \A k \in B : i <= k

\* the latest call went through a logging method of the facade, from a user frame
FacadeCall == call.op \in {"static", "instance"} /\ Len(stack) >= 1

SameFrame(c, frame) ==
  /\ c.functionName = CallerFields(frame).functionName
  /\ c.methodName = CallerFields(frame).methodName
  /\ c.line = frame.line

\* C1: a logging method called from a user frame attaches that user frame,
\* the frame just outside the logging method, as the caller of the record.
C1_CallerIsUserFrame ==
  FacadeCall => caller.status = "returned" /\ SameFrame(caller.value, stack[1])

\* C8: when the sentinel or the boundary is not found, the call-site is the
\* first raw frame (index 0 of the captured frames) and no error is raised.
C8_FallbackIsFirstFrame ==
  (call.op # "none" /\ BoundaryIndex(call.callSites) = -1)
    => /\ caller.status = "returned"
       /\ SameFrame(caller.value, call.callSites[1])

\* C9: when the boundary is found at i and i + skipLevels + 1 is past the end
\* of the frames, an empty CallSite is returned (all fields absent, empty
\* trace) and no fault is raised.
C9_TotalInSkipLevels ==
  (/\ call.op # "none"
   /\ BoundaryIndex(call.callSites) # -1
   /\ BoundaryIndex(call.callSites) + call.level + 1 >= Len(call.callSites))
    => /\ caller.status = "returned"
       /\ caller.value.functionName = Absent
       /\ caller.value.methodName = Absent
       /\ caller.value.line = NoNumber
       /\ caller.value.trace = <<>>

\* the latest call returned a CallSite resolved from the boundary
ResolvedCall ==
  /\ call.op # "none"
  /\ BoundaryIndex(call.callSites) # -1
  /\ caller.status = "returned"

\* 0-based index of the resolved frame of the latest call
ResolvedIndex == BoundaryIndex(call.callSites) + call.level + 1

\* number of frames beyond the resolved frame
Beyond == Len(call.callSites) - (ResolvedIndex + 1)

\* trace entry k is the k-th frame after the resolved one, and has no trace
TraceEntryOK(k) ==
  /\ SameFrame(caller.value.trace[k], call.callSites[ResolvedIndex + 1 + k])
  /\ ~caller.value.trace[k].hasTrace
  /\ caller.value.trace[k].trace = <<>>

C10_HookRestored == call.op # "none" => hook = call.hookBefore

----------------------------------------------------------------------------
(* Claims about rendering *)

RECURSIVE Plain(_, _)
\* the JSON value of an acyclic value: objects by their fields, undefined omitted
Plain(h, v) ==
  CASE v.t = "undefined" -> J_omitted
    [] v.t = "string" -> J_string(v.s)
    [] v.t = "object" ->
         J_object(Present([i \in 1..Len(Keys) |->
                             Member(Keys[i], Plain(h, h[v.ref][Keys[i]]))]))

\* an array element: undefined is null in JSON
PlainItem(h, v) == IF v.t = "undefined" THEN J_null ELSE Plain(h, v)

\* the latest rendered record has json as its only format
JsonOnly == rendered.status = "done" /\ rendered.formats = <<Json>>

\* no reference cycle is reachable from the record's meta and args
Acyclic ==
  ~Cyclic(heap, {rendered.rec.meta} \cup {rendered.rec.args[i] : i \in DOMAIN rendered.rec.args})

\* C2: for a record with formats = ["json"] and acyclic meta and args
\* (objects may be shared), messages() yields JSON whose level, name, date,
\* args and meta equal the record's fields, without any circular marker.
C2_JsonRoundTrip ==
  (JsonOnly /\ Acyclic)
    => /\ rendered.result.status = "returned"
       /\ LET j == rendered.result.out[1].json
              rec == rendered.rec
          IN  /\ Get(j, "level") = J_string(rec.level)
              /\ Get(j, "name") = J_optional(rec.name)
              /\ Get(j, "date") = J_number(rec.date)
              /\ Get(j, "args") = J_array([i \in DOMAIN rec.args |-> PlainItem(heap, rec.args[i])])
              /\ Get(j, "meta") = Plain(heap, rec.meta)

\* some template of the formats names a pipe that is not a function
FailingTemplate(f, pipes) ==
  /\ f.kind = "template"
  /\ \E i \in DOMAIN f.parts :
       f.parts[i].kind = "mask" /\ f.parts[i].pipe # Absent
         /\ ~IsFunction(pipes, f.parts[i].pipe)

RECURSIVE OtherOutputs(_, _, _, _)
\* the outputs of the formats that are not failing templates, in order
OtherOutputs(h, rec, formats, pipes) ==
  IF formats = <<>> THEN <<>>
  ELSE IF FailingTemplate(Head(formats), pipes)
    THEN OtherOutputs(h, rec, Tail(formats), pipes)
    ELSE <<RenderFormat(h, rec, pipes, Head(formats)).out>>
           \o OtherOutputs(h, rec, Tail(formats), pipes)

\* C3: a template naming a missing pipe fails with an error naming the pipe,
\* and messages() still yields the outputs of the other formats, in order.
C3_FailureIsolated ==
  (/\ rendered.status = "done"
   /\ \E i \in DOMAIN rendered.formats : FailingTemplate(rendered.formats[i], rendered.pipes))
    => /\ rendered.result.pipe = "upper"
       /\ rendered.result.out =
            OtherOutputs(heap, rendered.rec, rendered.formats, rendered.pipes)

RECURSIVE Marked(_, _, _, _)
\* in the JSON tree of value v, every reference to an object that is being
\* written (an ancestor) is the marker string; a marker may also stand for an
\* object written earlier
Marked(h, v, tree, ancestors) ==
  IF v.t # "object" THEN TRUE
  ELSE IF v.ref \in ancestors THEN tree = J_string("[circular]")
  ELSE IF tree = J_string("[circular]") THEN TRUE
  ELSE /\ tree.t = "object"
       /\ \A i \in 1..Len(Keys) :
            Marked(h, h[v.ref][Keys[i]], Get(tree, Keys[i]), ancestors \cup {v.ref})

\* C4: JSON rendering of any record, cyclic meta or args included, ends
\* without an exception, and every reference that closes a cycle is written
\* as the string "[circular]".
C4_CyclesMarked ==
  rendered.status = "done"
    => /\ rendered.result.status # "TypeError: circular"
       /\ \A i \in DOMAIN rendered.result.out :
            rendered.result.out[i].kind = "json"
              => LET j == rendered.result.out[i].json
                 IN  /\ Marked(heap, rendered.rec.meta, Get(j, "meta"), {})
                     /\ \A k \in DOMAIN rendered.rec.args :
                          Marked(heap, rendered.rec.args[k], Get(j, "args").items[k], {})

\* a record whose meta refers to itself through a second object, rendered as
\* JSON with the marker where the cycle closes
C4_Witness ==
  /\ JsonOnly
  /\ heap[1].a = V_object(2)
  /\ heap[2].b = V_object(1)
  /\ rendered.result.status = "returned"
  /\ Get(Get(Get(rendered.result.out[1].json, "meta"), "a"), "b") = J_string("[circular]")

----------------------------------------------------------------------------
(* Claims about the facade *)

\* what record k is: its own fields, the formats and pipes it refers to, and
\* what it renders to
RecordView(k) ==
  [rec |-> records[k].rec,
   formats |-> loggers[records[k].rec.owner].formats,
   pipes |-> loggers[records[k].rec.owner].pipes,
   messages |-> RecordMessages(loggers, records[k].rec)]

\* C6: no later operation of the facade changes the formats, pipes, meta,
\* name, level or args of a record that exists, nor what it renders to.
C6_RecordImmutable ==
  [][\A k \in DOMAIN records : RecordView(k)' = RecordView(k)]_vars

\* C7: debug() on a logger creates a record of level debug and hands it to
\* that logger's handler exactly when that logger's debug option is true.
C7_DebugFollowsOwnOption ==
  last.op = "debug"
    => /\ last.created <=> last.option
       /\ last.created
            => /\ records[Len(records)].rec.level = "debug"
               /\ records[Len(records)].rec.owner = last.logger
               /\ records[Len(records)].handler = last.handler

====
